---- MODULE Spec2Model ----
(***************************************************************************)
(* embedded-graphics-framebuf: the frame buffer (src/src/lib.rs) and its   *)
(* storage backends (src/src/backends.rs).                                 *)
(*                                                                         *)
(* Memory is modelled byte by byte: every element of the backing array is  *)
(* the tuple of bytes it occupies, in address order.  A 16-bit colour is   *)
(* laid out in the byte order of the host the crate was compiled for.      *)
(* usize and i32 are modelled as machine integers of UsizeBits and I32Bits *)
(* bits (a scaled-down 64-bit host: usize is wider than i32); arithmetic   *)
(* overflow panics when the build has overflow checks (debug) and wraps    *)
(* when it has not (release).                                              *)
(***************************************************************************)
EXTENDS Integers, Sequences, FiniteSets, TLC

VARIABLES
    host,             \* byte order of the compilation target: "little" | "big"
    overflow_checks,  \* TRUE: debug profile, FALSE: release profile
    ctype,            \* colour type C: "BinaryColor" | "Rgb565"
    kind,             \* backend: "array" | "ToBigEndian" | "ToLittleEndian"
    data,             \* the backing memory: one byte tuple per element
    fill,             \* the colours the caller placed in the storage at first
    written,          \* per index: <<c>> for the colour c of the latest set, else <<>>
    status,           \* "backend" | "fbuf" | "iterating" | "panicked"
    width,            \* FrameBuf.width
    height,           \* FrameBuf.height
    index,            \* PixelIterator.index
    yielded,          \* the pixels the current iterator has returned so far
    last,             \* the latest call and what it returned
    accessed          \* the indices the latest call handed to the backend

vars == <<host, overflow_checks, ctype, kind, data, fill, written, status,
          width, height, index, yielded, last, accessed>>

config == <<host, overflow_checks, ctype, kind, fill>>
fbvars == <<width, height, index, yielded>>

----------------------------------------------------------------------------
(* Bounds of the model *)

\* largest backing array of the backend-contract specification
MaxLen == 3
\* largest backing array of the frame buffer specification
MaxElems == 5
\* longest pixel stream handed to draw_iter
MaxStream == 2
\* width of usize and of i32 in the scaled-down machine
UsizeBits == 5
I32Bits == 3

UsizeMod == 2 ^ UsizeBits
I32Mod == 2 ^ I32Bits
I32Max == (I32Mod \div 2) - 1

----------------------------------------------------------------------------
(* Colours *)

\* Rgb565::RED, Rgb565::BLUE and Rgb565::BLACK as raw 16-bit values
RED == 63488
BLUE == 31
BLACK == 0
\* BinaryColor::Off and BinaryColor::On
Off == 0
On == 1

\* no colour: what an operation that returns nothing, or panics, yields
None == "none"

HostOrders == {"little", "big"}
EndianCorrection == {"ToLittleEndian", "ToBigEndian"}

\* the colours the callers of the model draw with
Palette(ct) == IF ct = "BinaryColor" THEN {Off, On} ELSE {RED, BLUE}

\* C::default(): BinaryColor::Off, Rgb565 black
Default(ct) == IF ct = "BinaryColor" THEN Off ELSE BLACK

\* core::mem::size_of::<C>()
size_of(ct) == IF ct = "BinaryColor" THEN 1 ELSE 2

----------------------------------------------------------------------------
(* 16-bit values and their bytes *)

Hi(v) == v \div 256
Lo(v) == v % 256

swap_bytes(v) == Lo(v) * 256 + Hi(v)

\* to_be that takes the host to be little-endian
to_be_always_swaps(h, v) == swap_bytes(v)

\* u16::to_be / u16::to_le / u16::from_be / u16::from_le on a host of order h
to_be(h, v) == IF h = "big" THEN v ELSE swap_bytes(v)
to_le(h, v) == IF h = "little" THEN v ELSE swap_bytes(v)
from_be(h, v) == IF h = "big" THEN v ELSE swap_bytes(v)
from_le(h, v) == IF h = "little" THEN v ELSE swap_bytes(v)

\* the bytes a colour value occupies in memory on a host of order h, and back
Store(ct, h, v) ==
    IF ct = "BinaryColor" THEN <<v>>
    ELSE IF h = "little" THEN <<Lo(v), Hi(v)>> ELSE <<Hi(v), Lo(v)>>

Load(ct, h, b) ==
    IF ct = "BinaryColor" THEN b[1]
    ELSE IF h = "little" THEN b[1] + 256 * b[2] ELSE b[1] * 256 + b[2]

----------------------------------------------------------------------------
(* Backends.  An operation returns [panic, data, value]: indexing past the  *)
(* end of the array or slice panics and leaves the memory as it was.        *)

Panic(d) == [panic |-> TRUE, data |-> d, value |-> None]
Done(d, v) == [panic |-> FALSE, data |-> d, value |-> v]

\* impl FrameBufferBackend for &mut [C; N]
array_set(ct, h, d, i, color) ==
    IF i >= Len(d) THEN Panic(d)
    ELSE Done([d EXCEPT ![i + 1] = Store(ct, h, color)], None)

array_get(ct, h, d, i) ==
    IF i >= Len(d) THEN Panic(d)
    ELSE Done(d, Load(ct, h, d[i + 1]))

\* get that returns the stored value without converting it back
endian_decode_raw(h, endian, raw) == raw

\* get with the arms of the match exchanged
endian_decode_exchanged(h, endian, raw) ==
    IF endian = "ToBigEndian" THEN from_le(h, raw) ELSE from_be(h, raw)

\* impl FrameBufferBackend for EndianCorrectedBuffer
endian_encode(h, endian, color) ==
    IF endian = "ToBigEndian" THEN to_be(h, color) ELSE to_le(h, color)

endian_decode(h, endian, raw) ==
    IF endian = "ToBigEndian" THEN from_be(h, raw) ELSE from_le(h, raw)

endian_set(ct, h, endian, d, i, color) ==
    IF i >= Len(d) THEN Panic(d)
    ELSE Done([d EXCEPT ![i + 1] = Store(ct, h, endian_encode(h, endian, color))], None)

endian_get(ct, h, endian, d, i) ==
    IF i >= Len(d) THEN Panic(d)
    ELSE Done(d, endian_decode(h, endian, Load(ct, h, d[i + 1])))

\* dynamic dispatch on the backend B of FrameBuf<C, B>
backend_set(d, i, color) ==
    IF kind = "array" THEN array_set(ctype, host, d, i, color)
    ELSE endian_set(ctype, host, kind, d, i, color)

backend_get(d, i) ==
    IF kind = "array" THEN array_get(ctype, host, d, i)
    ELSE endian_get(ctype, host, kind, d, i)

nr_elements(d) == Len(d)

----------------------------------------------------------------------------
(* The backend contract on its own: a caller that owns a backend and calls  *)
(* set and get on it.                                                       *)

NoCall == [op |-> "none"]

Backends ==
    {<<"BinaryColor", "array">>, <<"Rgb565", "array">>,
     <<"Rgb565", "ToBigEndian">>, <<"Rgb565", "ToLittleEndian">>}

\* all arrays of n colours of type ct
Fills(ct, n) == [1..n -> Palette(ct)]

InitBackend ==
    /\ host \in HostOrders
    /\ overflow_checks \in BOOLEAN
    /\ \E b \in Backends : ctype = b[1] /\ kind = b[2]
    /\ \E n \in 0..MaxLen : fill \in Fills(ctype, n)
    /\ data = [i \in 1..Len(fill) |-> Store(ctype, host, fill[i])]
    /\ written = [i \in 1..Len(fill) |-> <<>>]
    /\ status = "backend"
    /\ width = 0 /\ height = 0 /\ index = 0 /\ yielded = <<>>
    /\ last = NoCall
    /\ accessed = {}

\* backend.set(i, color)
BackendSet(i, color) ==
    /\ status = "backend"
    /\ LET r == backend_set(data, i, color) IN
        /\ data' = r.data
        /\ status' = IF r.panic THEN "panicked" ELSE status
        /\ written' = IF r.panic THEN written ELSE [written EXCEPT ![i + 1] = <<color>>]
        /\ last' = [op |-> "set", index |-> i, color |-> color, panic |-> r.panic]
    /\ accessed' = {i}
    /\ UNCHANGED <<config, fbvars>>

\* backend.get(i)
BackendGet(i) ==
    /\ status = "backend"
    /\ LET r == backend_get(data, i) IN
        /\ status' = IF r.panic THEN "panicked" ELSE status
        /\ last' = [op |-> "get", index |-> i, value |-> r.value, panic |-> r.panic]
    /\ accessed' = {i}
    /\ UNCHANGED <<config, fbvars, data, written>>

NextBackend ==
    \/ \E i \in 0..nr_elements(data), c \in Palette(ctype) : BackendSet(i, c)
    \/ \E i \in 0..nr_elements(data) : BackendGet(i)

SpecBackend == InitBackend /\ [][NextBackend]_vars

----------------------------------------------------------------------------
(* Machine integers *)

USIZE(v) == [panic |-> FALSE, v |-> v]
Overflow == [panic |-> TRUE, v |-> 0]

\* a * b and a + b in usize: an overflow panics with overflow checks and
\* wraps without
usize_mul(a, b) ==
    IF a * b < UsizeMod THEN USIZE(a * b)
    ELSE IF overflow_checks THEN Overflow ELSE USIZE((a * b) % UsizeMod)

usize_add(a, b) ==
    IF a + b < UsizeMod THEN USIZE(a + b)
    ELSE IF overflow_checks THEN Overflow ELSE USIZE((a + b) % UsizeMod)

\* `u as i32`: the low I32Bits bits of u, read as a signed number
usize_as_i32(u) ==
    LET m == u % I32Mod IN IF m > I32Max THEN m - I32Mod ELSE m

\* `v as usize`: v sign-extended to UsizeBits bits
i32_as_usize(v) == IF v >= 0 THEN v ELSE UsizeMod + v

----------------------------------------------------------------------------
(* FrameBuf.  Points are pairs <<x, y>> of i32; a pixel is <<point, colour>>. *)
(* An operation returns [panic, data, value, idx]: idx holds the indices it   *)
(* handed to the backend's set or get.                                        *)

Ret(r, idx) == [panic |-> r.panic, data |-> r.data, value |-> r.value, idx |-> idx]
Abort(d, idx) == [panic |-> TRUE, data |-> d, value |-> None, idx |-> idx]
Ok(d, v, idx) == [panic |-> FALSE, data |-> d, value |-> v, idx |-> idx]

\* FrameBuf::new: TRUE when the assertion passes and the buffer is built
new(d, w, h) ==
    LET prod == usize_mul(w, h) IN
        ~prod.panic /\ nr_elements(d) = prod.v

\* point_to_index that rejects a point whose x is not within the row
point_to_index_rejecting(p) ==
    LET m == usize_mul(width, i32_as_usize(p[2])) IN
        IF m.panic \/ i32_as_usize(p[1]) >= width THEN Overflow
        ELSE usize_add(m.v, i32_as_usize(p[1]))

\* FrameBuf::point_to_index: self.width * p.y as usize + p.x as usize
point_to_index(p) ==
    LET m == usize_mul(width, i32_as_usize(p[2])) IN
        IF m.panic THEN Overflow ELSE usize_add(m.v, i32_as_usize(p[1]))

\* FrameBuf::set_color_at
set_color_at(d, p, color) ==
    LET i == point_to_index(p) IN
        IF i.panic THEN Abort(d, {}) ELSE Ret(backend_set(d, i.v, color), {i.v})

\* FrameBuf::get_color_at
get_color_at(d, p) ==
    LET i == point_to_index(p) IN
        IF i.panic THEN Abort(d, {}) ELSE Ret(backend_get(d, i.v), {i.v})

\* the test of draw_iter on a coordinate
clipped_in(coord) ==
    /\ coord[1] >= 0
    /\ coord[1] < usize_as_i32(width)
    /\ coord[2] >= 0
    /\ coord[2] < usize_as_i32(height)

\* DrawTarget::draw_iter: the loop from pixel k of the stream on
RECURSIVE draw_loop(_, _, _, _)
draw_loop(d, pixels, k, idx) ==
    IF k > Len(pixels) THEN Ok(d, None, idx)
    ELSE IF clipped_in(pixels[k][1])
    THEN LET r == set_color_at(d, pixels[k][1], pixels[k][2]) IN
            IF r.panic THEN Abort(r.data, idx \cup r.idx)
            ELSE draw_loop(r.data, pixels, k + 1, idx \cup r.idx)
    ELSE draw_loop(d, pixels, k + 1, idx)

draw_iter(d, pixels) == draw_loop(d, pixels, 1, {})

\* DrawTarget::clear: the nested loops from (x, y) on
RECURSIVE clear_loop(_, _, _, _, _)
clear_loop(d, y, x, color, idx) ==
    IF y >= height THEN Ok(d, None, idx)
    ELSE IF x >= width THEN clear_loop(d, y + 1, 0, color, idx)
    ELSE LET r == set_color_at(d, <<usize_as_i32(x), usize_as_i32(y)>>, color) IN
            IF r.panic THEN Abort(r.data, idx \cup r.idx)
            ELSE clear_loop(r.data, y, x + 1, color, idx \cup r.idx)

clear(d, color) == clear_loop(d, 0, 0, color, {})

\* FrameBuf::reset
reset(d) == clear(d, Default(ctype))

\* PixelIterator::next at self.index = i.  The Option it returns is <<>> for
\* None and <<pixel>> for Some(pixel); `index` is self.index afterwards.
\* Dividing by a width of 0 panics in every build.
next(d, i) ==
    IF width = 0 THEN Abort(d, {}) @@ [index |-> i]
    ELSE LET y == i \div width
             x == i - y * width
             n == usize_mul(width, height)
         IN  IF n.panic THEN Abort(d, {}) @@ [index |-> i]
             ELSE IF i >= n.v THEN Ok(d, <<>>, {}) @@ [index |-> i]
             ELSE LET p == <<usize_as_i32(x), usize_as_i32(y)>>
                      r == get_color_at(d, p)
                  IN  IF r.panic THEN Abort(d, r.idx) @@ [index |-> i + 1]
                      ELSE Ok(d, <<<<p, r.value>>>>, r.idx) @@ [index |-> i + 1]

\* DMACapableFrameBufferBackend::data_ptr: the address of the first element
data_ptr == "&data[0]"

\* ReadBuffer::read_buffer: the pair (pointer, length), or a panic
read_buffer ==
    LET n == usize_mul(height, width) IN
        IF n.panic THEN [panic |-> TRUE]
        ELSE LET len == usize_mul(n.v, size_of(ctype) \div 1) IN
            IF len.panic THEN [panic |-> TRUE]
            ELSE [panic |-> FALSE, ptr |-> data_ptr, len |-> len.v]

----------------------------------------------------------------------------
(* The frame buffer: a caller that owns a backend, builds a FrameBuf on it  *)
(* and uses it.                                                             *)

\* the widths and heights the caller tries: the small ones, and two so large
\* that their products overflow usize
DimSet == (0..MaxElems) \cup {UsizeMod \div 2, UsizeMod \div 2 + 1}

\* the colours the caller of a frame buffer draws with
Inks(ct) == IF ct = "BinaryColor" THEN {Off, On} ELSE {BLACK, RED}

\* the points the caller addresses, and the pixels it streams to draw_iter
PointSet == ({-1, 0, 1, 2} \X {0, 1}) \cup {<<0, -1>>}
DrawPoints == {<<-1, 0>>, <<0, 0>>, <<1, 0>>}
Streams(ct) ==
    UNION {[1..n -> DrawPoints \X Inks(ct)] : n \in 0..MaxStream}

\* the storage as the caller fills it: [c; n]
Init ==
    /\ host \in HostOrders
    /\ overflow_checks \in BOOLEAN
    /\ \E b \in Backends : ctype = b[1] /\ kind = b[2]
    /\ \E n \in 0..MaxElems, c \in Inks(ctype) :
        data = [i \in 1..n |-> Store(ctype, host, c)]
    /\ fill = <<>> /\ written = <<>>   \* history of SpecBackend only: not kept
    /\ status = "backend"
    /\ width = 0 /\ height = 0 /\ index = 0 /\ yielded = <<>>
    /\ last = NoCall
    /\ accessed = {}

history == <<fill, written>>
build == <<host, overflow_checks, ctype, kind>>

\* FrameBuf::new(data, w, h)
New(w, h) ==
    /\ status = "backend"
    /\ IF new(data, w, h)
       THEN /\ status' = "fbuf" /\ width' = w /\ height' = h
            /\ last' = [op |-> "new", w |-> w, h |-> h, panic |-> FALSE]
       ELSE /\ status' = "panicked" /\ UNCHANGED <<width, height>>
            /\ last' = [op |-> "new", w |-> w, h |-> h, panic |-> TRUE]
    /\ accessed' = {}
    /\ UNCHANGED <<build, history, data, index, yielded>>

\* what every call on the buffer does with its result r
Returned(r) ==
    /\ data' = r.data
    /\ accessed' = r.idx
    /\ status' = IF r.panic THEN "panicked" ELSE status
    /\ UNCHANGED <<build, history, fbvars>>

SetColorAt(p, c) ==
    /\ status = "fbuf"
    /\ Returned(set_color_at(data, p, c))
    /\ last' = [op |-> "set_color_at", p |-> p, color |-> c,
                panic |-> set_color_at(data, p, c).panic]

GetColorAt(p) ==
    /\ status = "fbuf"
    /\ Returned(get_color_at(data, p))
    /\ last' = [op |-> "get_color_at", p |-> p,
                value |-> get_color_at(data, p).value,
                panic |-> get_color_at(data, p).panic]

DrawIter(pixels) ==
    /\ status = "fbuf"
    /\ Returned(draw_iter(data, pixels))
    /\ last' = [op |-> "draw_iter", panic |-> draw_iter(data, pixels).panic]

Clear(c) ==
    /\ status = "fbuf"
    /\ Returned(clear(data, c))
    /\ last' = [op |-> "clear", color |-> c, panic |-> clear(data, c).panic]

Reset ==
    /\ status = "fbuf"
    /\ Returned(reset(data))
    /\ last' = [op |-> "reset", color |-> Default(ctype), panic |-> reset(data).panic]

\* (&fbuf).into_iter(): the iterator borrows the buffer until it is dropped
IntoIter ==
    /\ status = "fbuf"
    /\ status' = "iterating"
    /\ index' = 0
    /\ yielded' = <<>>
    /\ last' = [op |-> "into_iter"]
    /\ accessed' = {}
    /\ UNCHANGED <<build, history, data, width, height>>

\* iterator.next()
IterNext ==
    /\ status = "iterating"
    /\ LET r == next(data, index) IN
        /\ index' = r.index
        /\ yielded' = IF r.panic THEN yielded ELSE yielded \o r.value
        /\ status' = IF r.panic THEN "panicked" ELSE status
        /\ last' = [op |-> "next", value |-> r.value, panic |-> r.panic]
        /\ accessed' = r.idx
    /\ UNCHANGED <<build, history, data, width, height>>

\* the iterator is dropped and the borrow of the buffer ends
DropIter ==
    /\ status = "iterating"
    /\ status' = "fbuf"
    /\ index' = 0
    /\ yielded' = <<>>
    /\ last' = [op |-> "drop"]
    /\ accessed' = {}
    /\ UNCHANGED <<build, history, data, width, height>>

ReadBuffer ==
    /\ status = "fbuf"
    /\ last' = [op |-> "read_buffer", ret |-> read_buffer, panic |-> read_buffer.panic]
    /\ status' = IF read_buffer.panic THEN "panicked" ELSE status
    /\ accessed' = {}
    /\ UNCHANGED <<build, history, data, fbvars>>

Next ==
    \/ \E w \in DimSet, h \in DimSet : New(w, h)
    \/ \E p \in PointSet, c \in Inks(ctype) : SetColorAt(p, c)
    \/ \E p \in PointSet : GetColorAt(p)
    \/ \E pixels \in Streams(ctype) : DrawIter(pixels)
    \/ \E c \in Inks(ctype) : Clear(c)
    \/ Reset
    \/ IntoIter
    \/ IterNext
    \/ DropIter
    \/ ReadBuffer

Spec == Init /\ [][Next]_vars

----------------------------------------------------------------------------
(* Claims about the backend contract (checked under SpecBackend) *)

\* the byte order an endian-corrected backend keeps its storage in
TargetOrder(k) == IF k = "ToBigEndian" THEN "big" ELSE "little"

\* an in-range get has just returned
GetReturned == last.op = "get" /\ ~last.panic

\* an in-range set has just returned
SetReturned == last.op = "set" /\ ~last.panic

\* C2 as stated: get(i) returns the colour of the latest set(i, .), or, when
\* index i was never set, the colour the caller placed at index i of the
\* wrapped storage.
C2_GetReturnsLatestSetOrFill ==
    GetReturned =>
        last.value = IF written[last.index + 1] # <<>>
                     THEN written[last.index + 1][1]
                     ELSE fill[last.index + 1]

\* C2 amended: get(i) returns the colour of the latest set(i, .); when index
\* i was never set it returns the caller's initial value for the array
\* backend and for an endian-corrected backend whose target order is the
\* host's, and that value with its two bytes exchanged for an
\* endian-corrected backend whose target order is not the host's.
C2_GetReturnsLatestSetOrDecodedFill ==
    GetReturned =>
        last.value = IF written[last.index + 1] # <<>>
                     THEN written[last.index + 1][1]
                     ELSE IF kind = "array" \/ TargetOrder(kind) = host
                     THEN fill[last.index + 1]
                     ELSE swap_bytes(fill[last.index + 1])

\* a get of a never-set element of a ToBigEndian buffer on a little-endian
\* host: the caller placed RED (0xF800) there and get returns 0x00F8
C2_Witness ==
    /\ GetReturned
    /\ kind = "ToBigEndian" /\ host = "little"
    /\ written[last.index + 1] = <<>>
    /\ fill[last.index + 1] = RED
    /\ last.value = 248
    /\ \E j \in 1..Len(written) : written[j] # <<>>

\* C3: for an endian-corrected backend of either target, set(i, c) followed
\* by get(i) returns c.
C3_EndianRoundTrip ==
    (SetReturned /\ kind \in EndianCorrection) =>
        LET r == backend_get(data, last.index) IN
            ~r.panic /\ r.value = last.color

\* a set through a backend whose target order is not the host's: the stored
\* element read in host order is not the colour, and get still returns it
C3_Witness ==
    /\ SetReturned
    /\ kind \in EndianCorrection /\ TargetOrder(kind) # host
    /\ Load(ctype, host, data[last.index + 1]) # last.color
    /\ backend_get(data, last.index).value = last.color

\* C4: set(i, c) through an endian-corrected backend leaves, at element i and
\* in address order, the bytes [high, low] of c when the target is
\* ToBigEndian and [low, high] when it is ToLittleEndian, whatever the host
\* order; RED gives 0xF8, 0x00 and 0x00, 0xF8.
C4_StoredBytesInTargetOrder ==
    (SetReturned /\ kind \in EndianCorrection) =>
        LET b == data[last.index + 1]
            c == last.color
        IN  /\ b = IF kind = "ToBigEndian" THEN <<c \div 256, c % 256>>
                   ELSE <<c % 256, c \div 256>>
            /\ c = RED => b = IF kind = "ToBigEndian" THEN <<248, 0>> ELSE <<0, 248>>

\* RED stored with ToLittleEndian on a big-endian host
C4_Witness ==
    /\ SetReturned
    /\ kind = "ToLittleEndian" /\ host = "big"
    /\ last.color = RED
    /\ data[last.index + 1] = <<0, 248>>

----------------------------------------------------------------------------
(* Claims about the frame buffer (checked under Spec) *)

\* the points of the buffer: [0, width) x [0, height), as i32 coordinates
InRange(p) == p[1] >= 0 /\ p[1] < width /\ p[2] >= 0 /\ p[2] < height
Pixels == {p \in (0..I32Max) \X (0..I32Max) : InRange(p)}

\* the row-major index of a point
IndexOf(p) == p[2] * width + p[1]

\* element i of memory d exists and holds colour c
Holds(d, i, c) == i < Len(d) /\ backend_get(d, i).value = c

\* element i is the same in memories d and e
Same(d, e, i) == i < Len(d) /\ i < Len(e) /\ d[i + 1] = e[i + 1]

\* the size invariant of FrameBuf: the backend holds width * height elements
Sized == nr_elements(data) = width * height

\* the colours of the pairs of a stream that address point p, in order
InksFor(pixels, p) == SelectSeq(pixels, LAMBDA px : px[1] = p)

\* C1: FrameBuf::new(backend, width, height) panics whenever
\* backend.nr_elements() differs from width * height, for every width and
\* height; when they are equal it succeeds and the buffer has exactly the
\* given width and height.
C1_NewChecksSize ==
    last.op = "new" =>
        /\ last.panic <=> nr_elements(data) # last.w * last.h
        /\ ~last.panic => width = last.w /\ height = last.h

\* C5: draw_iter always returns Ok; afterwards every in-range pixel holds
\* the colour of the last pair of the stream that addresses it, or what it
\* held before when no pair does, and nothing else has changed.  Stated for
\* the buffers that keep the size invariant, so that a violation does not
\* rest on the defect of C1.
DrawIterApplied ==
    last'.op = "draw_iter" =>
       \A pixels \in Streams(ctype) : DrawIter(pixels) =>
        /\ ~last'.panic
        /\ Len(data') = Len(data)
        /\ \A p \in Pixels :
            LET inks == InksFor(pixels, p) IN
                IF inks = <<>> THEN Same(data, data', IndexOf(p))
                ELSE Holds(data', IndexOf(p), inks[Len(inks)][2])

C5_DrawIterClipsAndApplies == [][Sized => DrawIterApplied]_vars

\* C6: after clear(X), and after reset() with X the default colour,
\* get_color_at(p) = X for every in-range point p and no pixel holds
\* another colour.  Stated for the buffers that keep the size invariant.
C6_ClearSemantics ==
    (Sized /\ last.op \in {"clear", "reset"}) =>
        /\ ~last.panic
        /\ \A p \in Pixels :
            LET r == get_color_at(data, p) IN ~r.panic /\ r.value = last.color
        /\ \A i \in 0..(Len(data) - 1) : Holds(data, i, last.color)

\* C7: on every buffer that construction accepts, next never fails, and when
\* it returns None the pixels returned since into_iter are the width * height
\* points in row-major order, each with the colour get_color_at gives.
\* Stated for the buffers that keep the size invariant.
C7_IterationFullPass ==
    (Sized /\ last.op = "next") =>
        /\ ~last.panic
        /\ last.value = <<>> =>
            /\ Len(yielded) = width * height
            /\ \A k \in 1..Len(yielded) :
                LET p == <<(k - 1) % width, (k - 1) \div width>> IN
                    /\ yielded[k][1] = p
                    /\ yielded[k][2] = get_color_at(data, p).value

\* C8: read_buffer returns the backend's starting address and the byte
\* count width * height * size_of(C), which is nr_elements() * size_of(C),
\* and leaves the buffer as it was.
ReadBufferReturned ==
    ReadBuffer =>
        /\ ~last'.panic
        /\ last'.ret.ptr = "&data[0]"
        /\ last'.ret.len = width * height * size_of(ctype)
        /\ last'.ret.len = nr_elements(data) * size_of(ctype)
        /\ data' = data

C8_ReadBufferLength == [][ReadBufferReturned]_vars

\* C9: every index that draw_iter, clear, reset and the pixel iterator hand
\* to the backend's set or get is at least 0 and less than nr_elements().
\* Stated for the buffers that keep the size invariant.
C9_BackendIndicesInBounds ==
    (Sized /\ last.op \in {"draw_iter", "clear", "reset", "next"}) =>
        \A i \in accessed : i >= 0 /\ i < nr_elements(data)

\* C10: for an in-range point p, set_color_at(p, c) writes c to element
\* y * width + x and changes no other element, and get_color_at(p) returns
\* that element and changes nothing.
PointAddressed ==
    last'.op \in {"set_color_at", "get_color_at"} => \A p \in PointSet :
        /\ \A c \in Inks(ctype) : (InRange(p) /\ SetColorAt(p, c)) =>
            /\ ~last'.panic
            /\ Len(data') = Len(data)
            /\ Holds(data', IndexOf(p), c)
            /\ get_color_at(data', p).value = c
            /\ \A i \in 0..(Len(data) - 1) : i # IndexOf(p) => Same(data, data', i)
        /\ (InRange(p) /\ GetColorAt(p)) =>
            /\ ~last'.panic
            /\ Holds(data, IndexOf(p), last'.value)
            /\ data' = data

C10_PointAddressesRowMajorElement == [][PointAddressed]_vars

\* a point right of the last column whose row-major index is an element
Overhanging(p) ==
    /\ p[1] >= 0 /\ p[2] >= 0
    /\ p[1] >= width
    /\ p[2] * width + p[1] < nr_elements(data)

\* the pixel such a point lands on: its x carried over into the rows below
Carried(p) == <<p[1] % width, p[2] + p[1] \div width>>

\* a single-pixel accessor has just been called on an overhanging point
OverhangAccessed ==
    last.op \in {"set_color_at", "get_color_at"} /\ Overhanging(last.p)

\* C11: set_color_at and get_color_at neither clip nor reject a point (x, y)
\* with x >= width, x and y non-negative and y * width + x < nr_elements():
\* the call does not fail and accesses the in-range pixel
\* (x mod width, y + x div width) and no other; Point(2, 0) in a 2-wide
\* buffer addresses pixel (0, 1).
C11_OverhangingPointWrapsToNextRow ==
    OverhangAccessed =>
        LET q == Carried(last.p) IN
            /\ ~last.panic
            /\ InRange(q)
            /\ accessed = {IndexOf(q)}
            /\ last.op = "set_color_at" =>
                    get_color_at(data, q).value = last.color
            /\ last.op = "get_color_at" =>
                    last.value = get_color_at(data, q).value
            /\ (width = 2 /\ last.p = <<2, 0>>) => q = <<0, 1>>

\* set_color_at(Point(2, 0), RED) on a 2-wide buffer of black pixels: pixel
\* (0, 1) is red afterwards and the pixels of row 0 are still black
C11_Witness ==
    /\ OverhangAccessed
    /\ last.op = "set_color_at" /\ ~last.panic
    /\ width = 2 /\ height = 2 /\ last.p = <<2, 0>> /\ last.color = RED
    /\ accessed = {2}
    /\ get_color_at(data, <<0, 1>>).value = RED
    /\ get_color_at(data, <<0, 0>>).value = BLACK
    /\ get_color_at(data, <<1, 0>>).value = BLACK

----------------------------------------------------------------------------
(* How far the refuted statements do hold.  Each of these holds under Spec: *)
(* the statements fail only where a dimension does not fit i32, where the   *)
(* width is 0, or where wrapping arithmetic let new accept a buffer that    *)
(* breaks the size invariant.                                               *)

\* width and height are at most k
Fits(k) == width <= k /\ height <= k

\* new checks the size in a build with overflow checks
NewChecksSize_WithOverflowChecks == overflow_checks => C1_NewChecksSize

\* draw_iter clips and applies when both dimensions are at most i32::MAX
DrawIter_WithinI32 == [][(Sized /\ Fits(I32Max)) => DrawIterApplied]_vars

\* clear, the iterator and the backend indices are as stated when both
\* dimensions are at most i32::MAX + 1 (and the width is not 0)
Clear_WithinI32 == Fits(I32Max + 1) => C6_ClearSemantics
Iteration_WithinI32 == (Fits(I32Max + 1) /\ width > 0) => C7_IterationFullPass
BackendIndices_WithinI32 == Fits(I32Max + 1) => C9_BackendIndicesInBounds

\* read_buffer and the single-pixel accessors are as stated on every buffer
\* that keeps the size invariant
ReadBuffer_Sized == [][Sized => ReadBufferReturned]_vars
PointAddressed_Sized == [][Sized => PointAddressed]_vars

====
